---- MODULE Spec2Model ----
(***************************************************************************)
(* State-machine model of the ygo-metadata-pipeline synchronisation code:  *)
(*   - the batch-upsert engine (sync_cards.batch_upsert and                *)
(*     sync_banlist.batch_upsert_banlist),                                 *)
(*   - the selection of cards to process (get_cards_without_images and     *)
(*     get_cards_without_cropped_images),                                  *)
(*   - the parallel item processor (process_card / process_cards_parallel  *)
(*     of sync_images and sync_cropped_images),                            *)
(*   - the pipelines that fold the outcomes into SyncResult values.        *)
(* Every call to the keyed store, the object store or the remote API is a  *)
(* step of its own; its outcome is chosen by the environment.              *)
(***************************************************************************)
EXTENDS Integers, Sequences, FiniteSets, TLC

\* ------------------------------------------------------------------ bounds
MaxRecords == 3
MaxKey == 2
MaxRuns == 2
MaxCards == 2
MaxPages == 2
MaxRaw == 2
MaxWorkers == 2
MaxLimit == 1
MaxBanned == 2
MaxElapsed == 1
MaxLanguages == 2

\* ------------------------------------------------------------------ state
VARIABLES
    store,        \* keyed store: table name -> sequence of rows
    rejected,     \* environment: the conflict keys (ids) the store rejects
    records,      \* batch_upsert: the records argument
    table,        \* batch_upsert: the table argument
    conflict_columns, \* batch_upsert: the on_conflict column set
    batch_size,   \* settings.pipeline.batch_size
    i,            \* batch_upsert: loop offset (0-based, as in range())
    j,            \* batch_upsert: position in the fallback loop (1-based)
    successful,   \* batch_upsert: counter
    failed,       \* batch_upsert: counter
    epc,          \* batch_upsert: position in the function
    sleeps,       \* number of time.sleep(0.1) calls of the running call
    chunk,        \* history of the chunk being processed
    hist          \* history of the run (calls made, failures seen)

VARIABLES
    cropped,      \* which image pipeline runs: sync_cropped_images or sync_images
    force,        \* run_sync_images: force
    limit,        \* run_sync_images: limit (0 stands for None: both are falsy)
    max_workers,  \* process_cards_parallel: max_workers
    rpc,          \* run_sync_images: position in the function
    cards,        \* the cards selected by get_cards_without_images
    stage,        \* per submitted card: pending, the stage it is in, or finished
    fut,          \* per submitted card: its future
    locals,       \* per submitted card: the local variables of process_card
    collected,    \* the futures as_completed has yielded so far
    p_successful, \* process_cards_parallel: successful
    p_failed,     \* process_cards_parallel: failed
    log,          \* the warnings and errors logged
    s3,           \* object store: key -> body
    trace,        \* history, per submitted card: the stages attempted
    result,       \* the SyncResult run_sync_images returns
    before        \* history: the ygo_card_metadata rows when the run starts

engineVars == <<rejected, records, table, conflict_columns, batch_size,
                i, j, successful, failed, epc, sleeps, chunk, hist>>

imageVars == <<cropped, force, limit, max_workers, rpc, cards, stage, fut,
               locals, collected, p_successful, p_failed, log, s3, trace, result,
               before>>

VARIABLES
    cpc,               \* run_sync_cards / sync_translations: position
    skip_translations, \* run_sync_cards: skip_translations
    raw_cards,         \* the payload of the last fetch_cards_from_api call
    lang,              \* sync_translations: index of the language of the loop
    total_successful,  \* sync_translations: total_successful
    total_failed,      \* sync_translations: total_failed
    total_records,     \* sync_translations: total_records
    metadata_result,   \* run_sync_cards: metadata_result
    translation_result \* run_sync_cards: translation_result

VARIABLE
    validation_errors  \* validate_and_transform_*: validation_errors of the last call

VARIABLES
    languages,         \* settings.pipeline.translation_languages
    lang_outcome       \* history: per language of the loop so far, whether an
                       \* exception reached the handler and what batch_upsert
                       \* was given and returned

translationVars == <<languages, lang_outcome>>

cardsVars == <<cpc, skip_translations, raw_cards, lang, total_successful,
               total_failed, total_records, metadata_result, translation_result,
               validation_errors, translationVars>>

VARIABLES
    bpc,            \* run_sync_banlist / fetch_banlist_from_api: position
    tcg_cards,      \* fetch_banlist_from_api: tcg_cards
    ocg_cards,      \* fetch_banlist_from_api: ocg_cards
    cards_by_id,    \* fetch_banlist_from_api: cards_by_id, in insertion order
    banlist_result  \* the SyncResult run_sync_banlist returns

banlistVars == <<bpc, tcg_cards, ocg_cards, cards_by_id, banlist_result>>

VARIABLES
    exit_code,      \* main: the value a cmd_* handler returns to sys.exit
                    \* (-1 while no handler has returned)
    fetch_errors    \* history: the fetch calls that raised

mainVars == <<exit_code, fetch_errors>>

\* what a step of batch_upsert leaves alone, and what a step of the image
\* pipeline leaves alone
outsideEngine == <<imageVars, cardsVars, banlistVars, mainVars>>

outsideImages == <<engineVars, cardsVars, banlistVars, mainVars>>

vars == <<store, engineVars, imageVars, cardsVars, banlistVars, mainVars>>

\* Python's None, SQL null and the empty bytes object: all falsy
None == <<>>

\* PipelineConfig.translation_languages: the default
translation_languages == <<"pt">>

\* the image pipeline before run_sync_images is called
ImagesIdle ==
    /\ cropped = FALSE
    /\ force = FALSE
    /\ limit = 0
    /\ max_workers = 1
    /\ rpc = "idle"
    /\ cards = <<>>
    /\ stage = <<>>
    /\ fut = <<>>
    /\ locals = <<>>
    /\ collected = {}
    /\ p_successful = 0
    /\ p_failed = 0
    /\ log = {}
    /\ s3 = {}
    /\ trace = <<>>
    /\ result = None
    /\ before = <<>>

\* the metadata pipeline before run_sync_cards is called
CardsIdle ==
    /\ cpc = "idle"
    /\ skip_translations = FALSE
    /\ raw_cards = <<>>
    /\ lang = 0
    /\ total_successful = 0
    /\ total_failed = 0
    /\ total_records = 0
    /\ metadata_result = None
    /\ translation_result = None
    /\ validation_errors = 0
    /\ languages = translation_languages
    /\ lang_outcome = <<>>

\* the banlist pipeline before run_sync_banlist is called
BanlistIdle ==
    /\ bpc = "idle"
    /\ tcg_cards = <<>>
    /\ ocg_cards = <<>>
    /\ cards_by_id = <<>>
    /\ banlist_result = None

\* no handler has returned and no fetch has raised
MainIdle ==
    /\ exit_code = -1
    /\ fetch_errors = {}

\* ------------------------------------------------------------ keyed store
Min(a, b) == IF a < b THEN a ELSE b

\* model_dump() of a record restricted to the on_conflict columns
ConflictKey(rec, cols) == [c \in cols |-> rec[c]]

RowIndexes(rows, rec, cols) ==
    {k \in DOMAIN rows :
        cols \subseteq DOMAIN rows[k] /\ ConflictKey(rows[k], cols) = ConflictKey(rec, cols)}

\* a plain INSERT: what an upsert without conflict resolution would do
InsertRow(rows, rec, cols) == Append(rows, rec)

\* upsert(record, on_conflict=cols): overwrite the columns of the row with
\* the same conflict key, insert otherwise
UpsertRow(rows, rec, cols) ==
    IF RowIndexes(rows, rec, cols) = {}
    THEN Append(rows, rec)
    ELSE [k \in DOMAIN rows |->
            IF k \in RowIndexes(rows, rec, cols)
            THEN [f \in DOMAIN rows[k] \cup DOMAIN rec |->
                    IF f \in DOMAIN rec THEN rec[f] ELSE rows[k][f]]
            ELSE rows[k]]

\* upsert(list, on_conflict=cols): the rows of the list, in order
RECURSIVE UpsertRows(_, _, _)
UpsertRows(rows, recs, cols) ==
    IF recs = <<>> THEN rows
    ELSE UpsertRows(UpsertRow(rows, Head(recs), cols), Tail(recs), cols)

\* the store rejects a record (row-level error) when its conflict key is in
\* rejected; a bulk upsert is one statement and fails as a whole
Rejects(rec, cols) == ConflictKey(rec, cols) \in rejected

AnyRejected(recs, cols) == \E k \in DOMAIN recs : Rejects(recs[k], cols)

\* --------------------------------------------------------- batch_upsert
\* total = len(records)
Total == Len(records)

\* batch = records[i : i + batch_size]
Batch == SubSeq(records, i + 1, Min(i + batch_size, Total))

\* a bulk upsert that writes only the first row of the batch
BulkWriteFirstOnly(rows, recs, cols) == UpsertRow(rows, Head(recs), cols)

\* client.table(table).upsert(batch_data, on_conflict=...).execute()
BulkWrite(rows, recs, cols) == UpsertRows(rows, recs, cols)

\* client.table(table).upsert(record.model_dump(), on_conflict=...).execute()
RecordWrite(rows, rec, cols) == UpsertRow(rows, rec, cols)

NewChunk(s, f) ==
    [succ0 |-> s, failed0 |-> f, bulk |-> "pending", tried |-> <<>>, ok |-> 0]

NewHist(st) ==
    [runs |-> 0, entry |-> st, calls |-> <<>>,
     bulkFailed |-> FALSE, recordFailed |-> FALSE, transient |-> FALSE]

\* a call the running batch_upsert has made: a bulk or an individual upsert
\* with the records it carried, or a sleep; i is the offset of the chunk
Call(op, recs) == [op |-> op, chunk |-> i, recs |-> recs]

\* the state on entry of batch_upsert(recs, t, cols): counters zeroed, the
\* loop over range(0, total, batch_size) about to start
EnterBatchUpsert(recs, t, cols) ==
    /\ records' = recs
    /\ table' = t
    /\ conflict_columns' = cols
    /\ i' = 0
    /\ j' = 0
    /\ successful' = 0
    /\ failed' = 0
    /\ sleeps' = 0
    /\ chunk' = NewChunk(0, 0)
    /\ epc' = IF Len(recs) > 0 THEN "bulk" ELSE "return"

\* the bulk upsert of the chunk succeeds: successful += len(batch)
BulkUpsertOk ==
    /\ epc = "bulk"
    /\ ~AnyRejected(Batch, conflict_columns)
    /\ store' = [store EXCEPT ![table] = BulkWrite(@, Batch, conflict_columns)]
    /\ successful' = successful + Len(Batch)
    /\ chunk' = [chunk EXCEPT !.bulk = "ok"]
    /\ hist' = [hist EXCEPT !.calls = Append(@, Call("bulk", Batch))]
    /\ epc' = "pace"
    /\ UNCHANGED <<rejected, records, table, conflict_columns, batch_size,
                   i, j, failed, sleeps>>
    /\ UNCHANGED outsideEngine

\* as BulkUpsertRaises, but counting a full batch_size for a short last chunk
BulkUpsertRaisesCountsBatchSize ==
    /\ epc = "bulk"
    /\ failed' = failed + batch_size
    /\ chunk' = [chunk EXCEPT !.bulk = "failed"]
    /\ hist' = [hist EXCEPT !.bulkFailed = TRUE,
                            !.calls = Append(@, Call("bulk", Batch))]
    /\ j' = 1
    /\ epc' = "record"
    /\ UNCHANGED <<store, rejected, records, table, conflict_columns,
                   batch_size, i, successful, sleeps>>
    /\ UNCHANGED outsideEngine

\* the bulk upsert raises and writes nothing: failed += len(batch), then the
\* per-record loop starts
BulkUpsertRaises ==
    /\ epc = "bulk"
    /\ failed' = failed + Len(Batch)
    /\ chunk' = [chunk EXCEPT !.bulk = "failed"]
    /\ hist' = [hist EXCEPT !.bulkFailed = TRUE,
                            !.calls = Append(@, Call("bulk", Batch))]
    /\ j' = 1
    /\ epc' = "record"
    /\ UNCHANGED <<store, rejected, records, table, conflict_columns,
                   batch_size, i, successful, sleeps>>
    /\ UNCHANGED outsideEngine

NextRecord ==
    /\ j' = j + 1
    /\ epc' = IF j < Len(Batch) THEN "record" ELSE "pace"

\* as RecordUpsertOk, but without failed -= 1
RecordUpsertOkKeepsFailed ==
    /\ epc = "record"
    /\ ~Rejects(Batch[j], conflict_columns)
    /\ store' = [store EXCEPT ![table] = RecordWrite(@, Batch[j], conflict_columns)]
    /\ successful' = successful + 1
    /\ chunk' = [chunk EXCEPT !.tried = Append(@, Batch[j]), !.ok = @ + 1]
    /\ hist' = [hist EXCEPT !.calls = Append(@, Call("record", <<Batch[j]>>))]
    /\ NextRecord
    /\ UNCHANGED <<rejected, records, table, conflict_columns, batch_size,
                   i, failed, sleeps>>
    /\ UNCHANGED outsideEngine

\* the individual upsert of batch[j] succeeds: successful += 1, failed -= 1
RecordUpsertOk ==
    /\ epc = "record"
    /\ ~Rejects(Batch[j], conflict_columns)
    /\ store' = [store EXCEPT ![table] = RecordWrite(@, Batch[j], conflict_columns)]
    /\ successful' = successful + 1
    /\ failed' = failed - 1
    /\ chunk' = [chunk EXCEPT !.tried = Append(@, Batch[j]), !.ok = @ + 1]
    /\ hist' = [hist EXCEPT !.calls = Append(@, Call("record", <<Batch[j]>>))]
    /\ NextRecord
    /\ UNCHANGED <<rejected, records, table, conflict_columns, batch_size,
                   i, sleeps>>
    /\ UNCHANGED outsideEngine

\* an individual upsert whose exception is not caught and leaves batch_upsert
RecordUpsertRaisesPropagates ==
    /\ epc = "record"
    /\ hist' = [hist EXCEPT !.recordFailed = TRUE,
                            !.calls = Append(@, Call("record", <<Batch[j]>>))]
    /\ epc' = "raised"
    /\ UNCHANGED <<store, rejected, records, table, conflict_columns,
                   batch_size, i, j, successful, failed, sleeps, chunk>>
    /\ UNCHANGED outsideEngine

\* the individual upsert of batch[j] raises: logged, counters unchanged
RecordUpsertRaises ==
    /\ epc = "record"
    /\ chunk' = [chunk EXCEPT !.tried = Append(@, Batch[j])]
    /\ hist' = [hist EXCEPT !.recordFailed = TRUE,
                            !.transient = @ \/ ~Rejects(Batch[j], conflict_columns),
                            !.calls = Append(@, Call("record", <<Batch[j]>>))]
    /\ NextRecord
    /\ UNCHANGED <<store, rejected, records, table, conflict_columns,
                   batch_size, i, successful, failed, sleeps>>
    /\ UNCHANGED outsideEngine

\* a loop that sleeps at the end of every iteration, the last included
PaceAfterEveryChunk ==
    /\ epc = "pace"
    /\ sleeps' = sleeps + 1
    /\ hist' = [hist EXCEPT !.calls = Append(@, Call("sleep", <<>>))]
    /\ i' = i + batch_size
    /\ chunk' = NewChunk(successful, failed)
    /\ epc' = IF i + batch_size < Total THEN "bulk" ELSE "return"
    /\ UNCHANGED <<store, rejected, records, table, conflict_columns,
                   batch_size, j, successful, failed>>
    /\ UNCHANGED outsideEngine

\* end of a loop iteration: sleep when another chunk follows, then the next
\* value of range(0, total, batch_size)
Pace ==
    /\ epc = "pace"
    /\ sleeps' = IF i + batch_size < Total THEN sleeps + 1 ELSE sleeps
    /\ hist' = IF i + batch_size < Total
               THEN [hist EXCEPT !.calls = Append(@, Call("sleep", <<>>))]
               ELSE hist
    /\ i' = i + batch_size
    /\ chunk' = NewChunk(successful, failed)
    /\ epc' = IF i + batch_size < Total THEN "bulk" ELSE "return"
    /\ UNCHANGED <<store, rejected, records, table, conflict_columns,
                   batch_size, j, successful, failed>>
    /\ UNCHANGED outsideEngine

\* return successful, failed
ReturnCounts ==
    /\ epc = "return"
    /\ epc' = "returned"
    /\ hist' = [hist EXCEPT !.runs = @ + 1]
    /\ UNCHANGED <<store, rejected, records, table, conflict_columns,
                   batch_size, i, j, successful, failed, sleeps, chunk>>
    /\ UNCHANGED outsideEngine

BatchUpsertStep ==
    \/ BulkUpsertOk
    \/ BulkUpsertRaises
    \/ RecordUpsertOk
    \/ RecordUpsertRaises
    \/ Pace
    \/ ReturnCounts

\* --------------------------------------- the engine run on its own (twice)
Keys == 1..MaxKey

\* a CardMetadata record, as batch_upsert gets it
CardRecord(id, name) == [id |-> id, name |-> name]

\* a CardBanlistEntry record, as batch_upsert_banlist gets it
BanlistRecord(id, name) ==
    [card_id |-> id, card_name |-> name, ban_tcg |-> "Forbidden",
     ban_ocg |-> None, ban_goat |-> None]

\* batch_upsert writes the table and conflict columns of its arguments,
\* batch_upsert_banlist writes ygo_banlist on card_id
UpsertTargets ==
    {[table |-> "ygo_card_metadata", cols |-> {"id"}],
     [table |-> "ygo_banlist", cols |-> {"card_id"}]}

RecordOf(tbl, id, name) ==
    IF tbl = "ygo_banlist" THEN BanlistRecord(id, name) ELSE CardRecord(id, name)

\* the id lists, repeats included, up to a renaming of the ids (the store
\* treats all ids alike): the first id is 1 and a new id is the next number
KeyLists ==
    {ks \in UNION {[1..n -> Keys] : n \in 0..MaxRecords} :
        \A p \in DOMAIN ks :
            ks[p] = 1 \/ \E q \in 1..(p - 1) : ks[q] >= ks[p] - 1}

\* the record lists: the name carries the position so that two records of
\* one id differ
RecordLists(tbl) ==
    {[p \in DOMAIN ks |-> RecordOf(tbl, ks[p], p)] : ks \in KeyLists}

\* a row written by an earlier sync; the ygo_card_metadata row has a column
\* the upsert does not carry
StaleRow(tbl, id) ==
    IF tbl = "ygo_banlist"
    THEN [card_id |-> id, card_name |-> 0, ban_tcg |-> "Limited",
          ban_ocg |-> None, ban_goat |-> None]
    ELSE [id |-> id, name |-> 0, image_url_s3 |-> <<"https", "cards", id>>]

StaleRows(tbl) == [k \in Keys |-> StaleRow(tbl, k)]

InitUpsert ==
    /\ \E target \in UpsertTargets :
          /\ table = target.table
          /\ conflict_columns = target.cols
    /\ records \in RecordLists(table)
    /\ batch_size \in 1..MaxRecords
    /\ rejected \in SUBSET {ConflictKey(records[p], conflict_columns) : p \in DOMAIN records}
    /\ store \in {[t \in {table} |-> rows] : rows \in {<<>>, StaleRows(table)}}
    /\ i = 0
    /\ j = 0
    /\ successful = 0
    /\ failed = 0
    /\ sleeps = 0
    /\ chunk = NewChunk(0, 0)
    /\ epc = IF Len(records) > 0 THEN "bulk" ELSE "return"
    /\ hist = NewHist(store[table])
    /\ ImagesIdle
    /\ CardsIdle
    /\ BanlistIdle
    /\ MainIdle

\* the caller runs batch_upsert again with the same records
Rerun ==
    /\ epc = "returned"
    /\ hist.runs < MaxRuns
    /\ EnterBatchUpsert(records, table, conflict_columns)
    /\ hist' = [hist EXCEPT !.entry = store[table], !.calls = <<>>]
    /\ UNCHANGED <<store, rejected, batch_size>>
    /\ UNCHANGED outsideEngine

NextUpsert == BatchUpsertStep \/ Rerun

SpecUpsert == InitUpsert /\ [][NextUpsert]_vars

\* -------------------------------------------------------- card selection
page_size == 1000

\* `if limit and ...`: None and 0 are both falsy
Truthy(n) == n # 0

\* the column the pipeline reads and writes
RefColumn(crp) == IF crp THEN "image_cropped_url_s3" ELSE "image_url_s3"

\* a selection that applies the null filter whatever force is
MatchingIgnoresForce(rows, col, frc) == SelectSeq(rows, LAMBDA r : r[col] = None)

\* query.is_(column, "null") unless force
Matching(rows, col, frc) ==
    IF frc THEN rows ELSE SelectSeq(rows, LAMBDA r : r[col] = None)

\* .select("id, name")
Project(rows) == [k \in DOMAIN rows |-> [id |-> rows[k].id, name |-> rows[k].name]]

\* query.range(offset, offset + page_size - 1).execute().data: the matching
\* rows offset .. offset + page_size - 1, counted from 0
Page(rows, col, frc, offset) ==
    LET m == Matching(rows, col, frc)
    IN  Project(SubSeq(m, offset + 1, Min(offset + page_size, Len(m))))

\* the iterations of the while True loop from the one that reads at offset
RECURSIVE SelectLoop(_, _, _, _, _, _)
SelectLoop(rows, col, frc, lim, all_cards, offset) ==
    LET page == Page(rows, col, frc, offset)
        acc == all_cards \o page
    IN  IF page = <<>> THEN all_cards
        ELSE IF Len(page) < page_size THEN acc
        ELSE IF Truthy(lim) /\ Len(acc) >= lim THEN SubSeq(acc, 1, lim)
        ELSE SelectLoop(rows, col, frc, lim, acc, offset + page_size)

\* get_cards_without_images(force, limit), and with the cropped column
\* get_cards_without_cropped_images(force, limit)
get_cards_without_images(rows, col, frc, lim) ==
    SelectLoop(rows, col, frc, lim, <<>>, 0)

\* ------------------------------------------------------------ image sync
\* SyncResult(total=..., successful=..., failed=...): skipped and
\* elapsed_seconds take their defaults
SyncResult(total, succ, fail) ==
    [total |-> total, successful |-> succ, failed |-> fail, skipped |-> 0,
     elapsed_seconds |-> 0]

\* the values of time.time() - start_time that are not below a reading made
\* earlier in the same run
ElapsedSince(earlier) == earlier..MaxElapsed

\* key = f"cards/{card_id}.jpg" (cards_cropped/ in the cropped pipeline)
S3Key(crp, card_id) == <<IF crp THEN "cards_cropped" ELSE "cards", card_id>>

\* f"https://{bucket}.s3.{region}.amazonaws.com/{key}"
S3Url(key) == <<"https", "bucket", "region">> \o key

\* response.content of a successful download
ImageBytes(card_id) == <<"jpg", card_id>>

\* s3_client.put_object(Bucket, Key, Body, ContentType)
PutObject(objects, key, body) ==
    {o \in objects : o.key # key} \cup {[key |-> key, body |-> body]}

\* an update without the .eq("id", card_id) filter
UpdateEveryRow(rows, col, card_id, s3_url) ==
    [k \in DOMAIN rows |-> [rows[k] EXCEPT ![col] = s3_url]]

\* client.table("ygo_card_metadata").update({col: s3_url}).eq("id", card_id)
UpdateRows(rows, col, card_id, s3_url) ==
    [k \in DOMAIN rows |->
        IF rows[k].id = card_id THEN [rows[k] EXCEPT ![col] = s3_url] ELSE rows[k]]

\* the values a future holds
NotDone == [kind |-> "pending"]

Returned(card_id, success, error_msg) ==
    [kind |-> "returned", card_id |-> card_id, success |-> success,
     error_msg |-> error_msg]

Raised(exc) == [kind |-> "raised", exc |-> exc]

\* an error_msg that does not name the card
ReasonWithoutName(text, card_name) == <<text>>

\* the f-strings process_card returns as error_msg
Reason(text, card_name) == <<text>> \o card_name

LogEntry(level, fn, text, ref) ==
    [level |-> level, fn |-> fn, text |-> text, ref |-> ref]

\* APIConfig defines ygoprodeck_image_template and no
\* ygoprodeck_cropped_image_template: in the cropped pipeline the attribute
\* lookup that builds the download URL raises AttributeError
TemplateConfigured(crp) == ~crp

Submitted == DOMAIN cards

InStage == {k \in Submitted : stage[k] \in {"download", "upload", "persist"}}

Pending == {k \in Submitted : stage[k] = "pending"}

\* a pool that starts a work item whenever one is submitted
WorkerAlwaysFree == TRUE

\* a worker thread of the pool is free
WorkerFree == Cardinality(InStage) < max_workers

Finish(k, f) ==
    /\ fut' = [fut EXCEPT ![k] = f]
    /\ stage' = [stage EXCEPT ![k] = "finished"]

Attempt(k, stg, outcome) == trace' = [trace EXCEPT ![k] = Append(@, <<stg, outcome>>)]

\* cards = get_cards_without_images(force=force, limit=limit)
SelectCards ==
    /\ rpc = "start"
    /\ cards' = get_cards_without_images(store["ygo_card_metadata"],
                                         RefColumn(cropped), force, limit)
    /\ rpc' = "selected"
    /\ UNCHANGED <<before, store, outsideImages, cropped, force, limit, max_workers, stage,
                   fut, locals, collected, p_successful, p_failed, log, s3,
                   trace, result>>

\* if not cards: return SyncResult(total=0, successful=0, failed=0)
ReturnNoCards ==
    /\ rpc = "selected"
    /\ cards = <<>>
    /\ result' = SyncResult(0, 0, 0)
    /\ rpc' = "done"
    /\ UNCHANGED <<before, store, outsideImages, cropped, force, limit, max_workers, cards,
                   stage, fut, locals, collected, p_successful, p_failed, log,
                   s3, trace>>

\* process_cards_parallel(cards, workers) up to the as_completed loop: the
\* counters are zeroed and every card is submitted to the executor
SubmitCards ==
    /\ rpc = "selected"
    /\ cards # <<>>
    /\ p_successful' = 0
    /\ p_failed' = 0
    /\ stage' = [k \in DOMAIN cards |-> "pending"]
    /\ fut' = [k \in DOMAIN cards |-> NotDone]
    /\ locals' = [k \in DOMAIN cards |-> [image_data |-> None, s3_url |-> None]]
    /\ trace' = [k \in DOMAIN cards |-> <<>>]
    /\ collected' = {}
    /\ rpc' = "process"
    /\ UNCHANGED <<before, store, outsideImages, cropped, force, limit, max_workers, cards,
                   log, s3, result>>

\* a free worker thread takes the oldest submitted work item and enters
\* process_card
WorkerTake(k) ==
    /\ rpc = "process"
    /\ k \in Pending
    /\ \A q \in Pending : k <= q
    /\ WorkerFree
    /\ stage' = [stage EXCEPT ![k] = "download"]
    /\ UNCHANGED <<before, store, outsideImages, cropped, force, limit, max_workers, rpc,
                   cards, fut, locals, collected, p_successful, p_failed, log,
                   s3, trace, result>>

\* download_cropped_image: settings.api.ygoprodeck_cropped_image_template
\* raises AttributeError, outside the try; it leaves process_card
DownloadTemplateMissing(k) ==
    /\ rpc = "process"
    /\ stage[k] = "download"
    /\ ~TemplateConfigured(cropped)
    /\ Attempt(k, "download", "raised")
    /\ Finish(k, Raised("AttributeError"))
    /\ UNCHANGED <<before, store, outsideImages, cropped, force, limit, max_workers, rpc,
                   cards, locals, collected, p_successful, p_failed, log, s3,
                   result>>

\* download_image returns response.content, not empty
DownloadOk(k) ==
    /\ rpc = "process"
    /\ stage[k] = "download"
    /\ TemplateConfigured(cropped)
    /\ locals' = [locals EXCEPT ![k].image_data = ImageBytes(cards[k].id)]
    /\ Attempt(k, "download", "ok")
    /\ stage' = [stage EXCEPT ![k] = "upload"]
    /\ UNCHANGED <<before, store, outsideImages, cropped, force, limit, max_workers, rpc,
                   cards, fut, collected, p_successful, p_failed, log, s3,
                   result>>

\* the request raises a RequestException: download_image logs a warning with
\* the card id and returns None; process_card returns the failure
DownloadFails(k) ==
    /\ rpc = "process"
    /\ stage[k] = "download"
    /\ TemplateConfigured(cropped)
    /\ log' = log \cup {LogEntry("warning", "download_image",
                                 "Failed to download image for card",
                                 <<"id", cards[k].id>>)}
    /\ Attempt(k, "download", "failed")
    /\ Finish(k, Returned(cards[k].id, FALSE,
                          Reason("Failed to download image for", cards[k].name)))
    /\ UNCHANGED <<before, store, outsideImages, cropped, force, limit, max_workers, rpc,
                   cards, locals, collected, p_successful, p_failed, s3, result>>

\* as DownloadEmpty, but without the `if not image_data` return
DownloadEmptyContinues(k) ==
    /\ rpc = "process"
    /\ stage[k] = "download"
    /\ TemplateConfigured(cropped)
    /\ Attempt(k, "download", "empty")
    /\ stage' = [stage EXCEPT ![k] = "upload"]
    /\ UNCHANGED <<before, store, outsideImages, cropped, force, limit, max_workers, rpc,
                   cards, fut, locals, collected, p_successful, p_failed, log,
                   s3, result>>

\* as DownloadEmpty, but the return of the `if not image_data` branch
\* reports success
DownloadEmptyReturnsSuccess(k) ==
    /\ rpc = "process"
    /\ stage[k] = "download"
    /\ TemplateConfigured(cropped)
    /\ Attempt(k, "download", "empty")
    /\ Finish(k, Returned(cards[k].id, TRUE, None))
    /\ UNCHANGED <<before, store, outsideImages, cropped, force, limit, max_workers, rpc,
                   cards, locals, collected, p_successful, p_failed, log, s3,
                   result>>

\* the request succeeds with an empty body: `not image_data` holds
DownloadEmpty(k) ==
    /\ rpc = "process"
    /\ stage[k] = "download"
    /\ TemplateConfigured(cropped)
    /\ Attempt(k, "download", "empty")
    /\ Finish(k, Returned(cards[k].id, FALSE,
                          Reason("Failed to download image for", cards[k].name)))
    /\ UNCHANGED <<before, store, outsideImages, cropped, force, limit, max_workers, rpc,
                   cards, locals, collected, p_successful, p_failed, log, s3,
                   result>>

\* download_image raises something that is no RequestException: it leaves
\* process_card and becomes the future's exception
DownloadRaises(k) ==
    /\ rpc = "process"
    /\ stage[k] = "download"
    /\ TemplateConfigured(cropped)
    /\ Attempt(k, "download", "raised")
    /\ Finish(k, Raised("Exception"))
    /\ UNCHANGED <<before, store, outsideImages, cropped, force, limit, max_workers, rpc,
                   cards, locals, collected, p_successful, p_failed, log, s3,
                   result>>

\* upload_to_s3 puts the object and returns its URL
UploadOk(k) ==
    /\ rpc = "process"
    /\ stage[k] = "upload"
    /\ s3' = PutObject(s3, S3Key(cropped, cards[k].id), locals[k].image_data)
    /\ locals' = [locals EXCEPT ![k].s3_url = S3Url(S3Key(cropped, cards[k].id))]
    /\ Attempt(k, "upload", "ok")
    /\ stage' = [stage EXCEPT ![k] = "persist"]
    /\ UNCHANGED <<before, store, outsideImages, cropped, force, limit, max_workers, rpc,
                   cards, fut, collected, p_successful, p_failed, log, result>>

\* an upload_to_s3 that logs the ClientError and returns the URL all the same
UploadFailsReturnsUrl(k) ==
    /\ rpc = "process"
    /\ stage[k] = "upload"
    /\ log' = log \cup {LogEntry("error", "upload_to_s3",
                                 "Failed to upload image for card",
                                 <<"id", cards[k].id>>)}
    /\ locals' = [locals EXCEPT ![k].s3_url = S3Url(S3Key(cropped, cards[k].id))]
    /\ Attempt(k, "upload", "failed")
    /\ stage' = [stage EXCEPT ![k] = "persist"]
    /\ UNCHANGED <<before, store, outsideImages, cropped, force, limit, max_workers, rpc,
                   cards, fut, collected, p_successful, p_failed, s3, result>>

\* put_object raises ClientError: upload_to_s3 logs an error and returns None
UploadFails(k) ==
    /\ rpc = "process"
    /\ stage[k] = "upload"
    /\ log' = log \cup {LogEntry("error", "upload_to_s3",
                                 "Failed to upload image for card",
                                 <<"id", cards[k].id>>)}
    /\ Attempt(k, "upload", "failed")
    /\ Finish(k, Returned(cards[k].id, FALSE,
                          Reason("Failed to upload image for", cards[k].name)))
    /\ UNCHANGED <<before, store, outsideImages, cropped, force, limit, max_workers, rpc,
                   cards, locals, collected, p_successful, p_failed, s3, result>>

\* put_object raises something that is no ClientError
UploadRaises(k) ==
    /\ rpc = "process"
    /\ stage[k] = "upload"
    /\ Attempt(k, "upload", "raised")
    /\ Finish(k, Raised("Exception"))
    /\ UNCHANGED <<before, store, outsideImages, cropped, force, limit, max_workers, rpc,
                   cards, locals, collected, p_successful, p_failed, log, s3,
                   result>>

\* update_database writes the reference and returns True; process_card
\* returns (card_id, True, None)
PersistOk(k) ==
    /\ rpc = "process"
    /\ stage[k] = "persist"
    /\ store' = [store EXCEPT !["ygo_card_metadata"] =
                    UpdateRows(@, RefColumn(cropped), cards[k].id, locals[k].s3_url)]
    /\ Attempt(k, "persist", "ok")
    /\ Finish(k, Returned(cards[k].id, TRUE, None))
    /\ UNCHANGED <<before, outsideImages, cropped, force, limit, max_workers, rpc, cards,
                   locals, collected, p_successful, p_failed, log, s3, result>>

\* an update_database whose error comes after the update has taken effect
PersistFailsAfterWrite(k) ==
    /\ rpc = "process"
    /\ stage[k] = "persist"
    /\ store' = [store EXCEPT !["ygo_card_metadata"] =
                    UpdateRows(@, RefColumn(cropped), cards[k].id, locals[k].s3_url)]
    /\ log' = log \cup {LogEntry("error", "update_database",
                                 "Failed to update database for card",
                                 <<"id", cards[k].id>>)}
    /\ Attempt(k, "persist", "failed")
    /\ Finish(k, Returned(cards[k].id, FALSE,
                          Reason("Failed to update database for", cards[k].name)))
    /\ UNCHANGED <<before, outsideImages, cropped, force, limit, max_workers, rpc,
                   cards, locals, collected, p_successful, p_failed, s3, result>>

\* the update raises: update_database logs an error and returns False
PersistFails(k) ==
    /\ rpc = "process"
    /\ stage[k] = "persist"
    /\ log' = log \cup {LogEntry("error", "update_database",
                                 "Failed to update database for card",
                                 <<"id", cards[k].id>>)}
    /\ Attempt(k, "persist", "failed")
    /\ Finish(k, Returned(cards[k].id, FALSE,
                          Reason("Failed to update database for", cards[k].name)))
    /\ UNCHANGED <<before, store, outsideImages, cropped, force, limit, max_workers, rpc,
                   cards, locals, collected, p_successful, p_failed, s3, result>>

\* as_completed yields a finished future that has not been yielded yet
Yielded(k) ==
    /\ rpc = "process"
    /\ k \in Submitted \ collected
    /\ fut[k] # NotDone
    /\ collected' = collected \cup {k}

\* future.result() returns success: successful += 1
CollectSuccess(k) ==
    /\ Yielded(k)
    /\ fut[k].kind = "returned"
    /\ fut[k].success
    /\ p_successful' = p_successful + 1
    /\ UNCHANGED <<before, store, outsideImages, cropped, force, limit, max_workers, rpc,
                   cards, stage, fut, locals, p_failed, log, s3, trace, result>>

\* future.result() returns a failure: failed += 1, the error_msg is logged
CollectFailure(k) ==
    /\ Yielded(k)
    /\ fut[k].kind = "returned"
    /\ ~fut[k].success
    /\ p_failed' = p_failed + 1
    /\ log' = IF fut[k].error_msg # None
              THEN log \cup {LogEntry("warning", "process_cards_parallel",
                                      Head(fut[k].error_msg), Tail(fut[k].error_msg))}
              ELSE log
    /\ UNCHANGED <<before, store, outsideImages, cropped, force, limit, max_workers, rpc,
                   cards, stage, fut, locals, p_successful, s3, trace, result>>

\* a collector without the except clause: the exception of the future
\* leaves process_cards_parallel
CollectExceptionPropagates(k) ==
    /\ Yielded(k)
    /\ fut[k].kind = "raised"
    /\ rpc' = "raised"
    /\ UNCHANGED <<before, store, outsideImages, cropped, force, limit, max_workers,
                   cards, stage, fut, locals, p_successful, p_failed, log, s3,
                   trace, result>>

\* as CollectException, but without failed += 1
CollectExceptionUncounted(k) ==
    /\ Yielded(k)
    /\ fut[k].kind = "raised"
    /\ log' = log \cup {LogEntry("error", "process_cards_parallel",
                                 "Unexpected error processing card",
                                 <<"id", cards[k].id>>)}
    /\ UNCHANGED <<before, store, outsideImages, cropped, force, limit, max_workers, rpc,
                   cards, stage, fut, locals, p_successful, p_failed, s3, trace,
                   result>>

\* future.result() raises: failed += 1, the error is logged with card['id']
CollectException(k) ==
    /\ Yielded(k)
    /\ fut[k].kind = "raised"
    /\ p_failed' = p_failed + 1
    /\ log' = log \cup {LogEntry("error", "process_cards_parallel",
                                 "Unexpected error processing card",
                                 <<"id", cards[k].id>>)}
    /\ UNCHANGED <<before, store, outsideImages, cropped, force, limit, max_workers, rpc,
                   cards, stage, fut, locals, p_successful, s3, trace, result>>

\* the as_completed loop is exhausted, the executor shuts down,
\* process_cards_parallel returns and run_sync_images builds its SyncResult
ReturnResult ==
    /\ rpc = "process"
    /\ collected = Submitted
    /\ \E elapsed \in ElapsedSince(0) :
          result' = [SyncResult(Len(cards), p_successful, p_failed)
                        EXCEPT !.elapsed_seconds = elapsed]
    /\ rpc' = "done"
    /\ UNCHANGED <<before, store, outsideImages, cropped, force, limit, max_workers, cards,
                   stage, fut, locals, collected, p_successful, p_failed, log,
                   s3, trace>>

\* cmd_sync_images returns 1 if result.failed > 0 else 0 (main has no
\* command for the cropped pipeline)
CmdSyncImagesReturn ==
    /\ rpc = "done"
    /\ ~cropped
    /\ exit_code' = IF result.failed > 0 THEN 1 ELSE 0
    /\ rpc' = "exited"
    /\ UNCHANGED <<before, store, engineVars, cardsVars, banlistVars, fetch_errors,
                   cropped, force, limit, max_workers, cards, stage, fut,
                   locals, collected, p_successful, p_failed, log, s3, trace,
                   result>>

\* the engine before batch_upsert is called
EngineIdle ==
    /\ rejected = {}
    /\ records = <<>>
    /\ table = "ygo_card_metadata"
    /\ conflict_columns = {"id"}
    /\ batch_size = 1
    /\ i = 0
    /\ j = 0
    /\ successful = 0
    /\ failed = 0
    /\ epc = "idle"
    /\ sleeps = 0
    /\ chunk = NewChunk(0, 0)
    /\ hist = NewHist(<<>>)

\* a reference written by an earlier sync under another bucket
OldUrl(col, card_id) == <<"https", "old-bucket", "region", col, card_id>>

CardName(card_id) == <<"name", card_id>>

\* a ygo_card_metadata row: refs[k] tells whether row k has a reference in
\* the pipeline's column; the other column holds an earlier reference
ImageRow(crp, card_id, has_ref) ==
    [id |-> card_id, name |-> CardName(card_id),
     image_url_s3 |->
        IF crp \/ has_ref THEN OldUrl("image_url_s3", card_id) ELSE None,
     image_cropped_url_s3 |->
        IF ~crp \/ has_ref THEN OldUrl("image_cropped_url_s3", card_id) ELSE None]

ImageTables(crp, n) ==
    {[k \in 1..n |-> ImageRow(crp, k, refs[k])] : refs \in [1..n -> BOOLEAN]}

InitImages ==
    /\ EngineIdle
    /\ CardsIdle
    /\ BanlistIdle
    /\ MainIdle
    /\ cropped \in BOOLEAN
    /\ force \in BOOLEAN
    /\ limit \in 0..MaxLimit
    /\ max_workers \in 1..MaxWorkers
    /\ \E n \in 0..MaxCards :
          store \in {[t \in {"ygo_card_metadata"} |-> rows] :
                        rows \in ImageTables(cropped, n)}
    /\ rpc = "start"
    /\ cards = <<>>
    /\ stage = <<>>
    /\ fut = <<>>
    /\ locals = <<>>
    /\ collected = {}
    /\ p_successful = 0
    /\ p_failed = 0
    /\ log = {}
    /\ s3 = {}
    /\ trace = <<>>
    /\ result = None
    /\ before = store["ygo_card_metadata"]

NextImages ==
    \/ SelectCards
    \/ ReturnNoCards
    \/ SubmitCards
    \/ \E k \in Submitted : WorkerTake(k)
    \/ \E k \in Submitted : DownloadTemplateMissing(k)
    \/ \E k \in Submitted : DownloadOk(k)
    \/ \E k \in Submitted : DownloadFails(k)
    \/ \E k \in Submitted : DownloadEmpty(k)
    \/ \E k \in Submitted : DownloadRaises(k)
    \/ \E k \in Submitted : UploadOk(k)
    \/ \E k \in Submitted : UploadFails(k)
    \/ \E k \in Submitted : UploadRaises(k)
    \/ \E k \in Submitted : PersistOk(k)
    \/ \E k \in Submitted : PersistFails(k)
    \/ \E k \in Submitted : CollectSuccess(k)
    \/ \E k \in Submitted : CollectFailure(k)
    \/ \E k \in Submitted : CollectException(k)
    \/ ReturnResult
    \/ CmdSyncImagesReturn

SpecImages == InitImages /\ [][NextImages]_vars

\* every stage call returns or raises, a free worker thread takes the next
\* work item, and the collecting thread runs: some enabled step is taken
SpecImagesLive == SpecImages /\ WF_vars(NextImages)

\* ------------------------- the selection on tables of several pages of rows
TableSizes ==
    {0, 1, page_size \div 2}
        \cup {p * page_size + d : p \in 1..MaxPages, d \in {-1, 0, 1}}

SelectLimits ==
    {0, 1, page_size \div 2, page_size - 1, page_size, page_size + 1,
     MaxPages * page_size}

\* which rows hold a reference already: none, all, or those with an odd id
HasRef(pattern, card_id) ==
    CASE pattern = "none" -> FALSE
      [] pattern = "all" -> TRUE
      [] pattern = "odd" -> card_id % 2 = 1

InitSelect ==
    /\ EngineIdle
    /\ CardsIdle
    /\ BanlistIdle
    /\ MainIdle
    /\ cropped \in BOOLEAN
    /\ force \in BOOLEAN
    /\ limit \in SelectLimits
    /\ max_workers = 1
    /\ \E n \in TableSizes, pattern \in {"none", "all", "odd"} :
          store = [t \in {"ygo_card_metadata"} |->
                     [k \in 1..n |-> ImageRow(cropped, k, HasRef(pattern, k))]]
    /\ rpc = "start"
    /\ cards = <<>>
    /\ stage = <<>>
    /\ fut = <<>>
    /\ locals = <<>>
    /\ collected = {}
    /\ p_successful = 0
    /\ p_failed = 0
    /\ log = {}
    /\ s3 = {}
    /\ trace = <<>>
    /\ result = None
    /\ before = store["ygo_card_metadata"]

\* run_sync_images up to the call of process_cards_parallel
NextSelect == SelectCards \/ ReturnNoCards

SpecSelect == InitSelect /\ [][NextSelect]_vars

\* ------------------------------------------- run_sync_cards, translations
\* PipelineConfig.batch_size and PipelineConfig.translation_languages
default_batch_size == 500

\* a raw API record at position p of the payload: with its id, or without
RawCard(p, has_id) ==
    IF has_id THEN [id |-> p, name |-> <<"name", p>>, desc |-> <<"desc", p>>]
    ELSE [name |-> <<"name", p>>, desc |-> <<"desc", p>>]

\* the payloads a fetch may return
RawLists ==
    {[p \in DOMAIN ids |-> RawCard(p, ids[p])] :
        ids \in UNION {[1..n -> BOOLEAN] : n \in 0..MaxRaw}}

\* RawCard.model_validate(raw) succeeds: id and name are required
IsValid(raw) == {"id", "name"} \subseteq DOMAIN raw

\* CardMetadata.from_raw
CardMetadata(raw) == [id |-> raw.id, name |-> raw.name, description |-> raw.desc]

\* CardTranslation.from_raw
CardTranslation(raw, language) ==
    [card_id |-> raw.id, language |-> language, name |-> raw.name,
     description |-> raw.desc]

\* what the loop body appends: CardMetadata.from_raw(raw_card) in
\* validate_and_transform_cards (which has no language, written ""), and
\* CardTranslation.from_raw(raw_card, language) in
\* validate_and_transform_translations
Transform(raw, language) ==
    IF language = "" THEN CardMetadata(raw) ELSE CardTranslation(raw, language)

NoneValidated == [transformed |-> <<>>, validation_errors |-> 0]

\* a loop that ends at the first record that fails validation
RECURSIVE ValidateStopsAtInvalid(_, _, _)
ValidateStopsAtInvalid(raw, language, acc) ==
    IF raw = <<>> \/ ~IsValid(Head(raw)) THEN acc
    ELSE ValidateStopsAtInvalid(Tail(raw), language,
            [acc EXCEPT !.transformed = Append(@, Transform(Head(raw), language))])

\* for raw in raw_cards: try model_validate and append the transformed
\* record; except ValidationError: validation_errors += 1
RECURSIVE Validate(_, _, _)
Validate(raw, language, acc) ==
    IF raw = <<>> THEN acc
    ELSE Validate(Tail(raw), language,
            IF IsValid(Head(raw))
            THEN [acc EXCEPT !.transformed = Append(@, Transform(Head(raw), language))]
            ELSE [acc EXCEPT !.validation_errors = @ + 1])

\* validate_and_transform_cards: returns transformed
validate_and_transform_cards(raw) == Validate(raw, "", NoneValidated).transformed

\* validate_and_transform_translations: returns transformed
validate_and_transform_translations(raw, language) ==
    Validate(raw, language, NoneValidated).transformed

\* an exit code that looks at the metadata result only
cmd_sync_cards_metadata_only(m, t) == IF m.failed > 0 THEN 1 ELSE 0

\* main.cmd_sync_cards: the exit code of the two results
cmd_sync_cards(m, t) ==
    IF m.failed > 0 THEN 1
    ELSE IF t # None /\ t.failed > 0 THEN 1
    ELSE 0

\* the metadata fetch raises (raise_for_status, a connection error): the
\* exception leaves run_sync_cards
FetchMetadataRaises ==
    /\ cpc = "start"
    /\ cpc' = "aborted"
    /\ fetch_errors' = fetch_errors \cup {<<"metadata">>}
    /\ UNCHANGED <<store, engineVars, imageVars, banlistVars, skip_translations, raw_cards,
                   lang, total_successful, total_failed, total_records,
                   metadata_result, translation_result,
                   exit_code, validation_errors, translationVars>>

\* a run without the early return: with no valid record the metadata result
\* is empty and, unless skip_translations, sync_translations starts
FetchMetadataNoCardsGoesOn(raw) ==
    /\ cpc = "start"
    /\ validate_and_transform_cards(raw) = <<>>
    /\ raw_cards' = raw
    /\ metadata_result' = SyncResult(0, 0, 0)
    /\ translation_result' = None
    /\ IF skip_translations
       THEN /\ cpc' = "done"
            /\ UNCHANGED lang
       ELSE /\ cpc' = "translations"
            /\ lang' = 1
    /\ validation_errors' = Validate(raw, "", NoneValidated).validation_errors
    /\ UNCHANGED <<store, engineVars, imageVars, banlistVars, skip_translations,
                   total_successful, total_failed, total_records,
                   mainVars, translationVars>>

\* the metadata fetch returns and no record is valid:
\* return SyncResult(total=0, successful=0, failed=0), None
FetchMetadataNoCards(raw) ==
    /\ cpc = "start"
    /\ validate_and_transform_cards(raw) = <<>>
    /\ raw_cards' = raw
    /\ metadata_result' = SyncResult(0, 0, 0)
    /\ translation_result' = None
    /\ cpc' = "done"
    /\ validation_errors' = Validate(raw, "", NoneValidated).validation_errors
    /\ UNCHANGED <<store, engineVars, imageVars, banlistVars, skip_translations, lang,
                   total_successful, total_failed, total_records,
                   mainVars, translationVars>>

\* the metadata fetch returns valid records: batch_upsert is called on them
FetchMetadataAndUpsert(raw) ==
    /\ cpc = "start"
    /\ validate_and_transform_cards(raw) # <<>>
    /\ raw_cards' = raw
    /\ EnterBatchUpsert(validate_and_transform_cards(raw), "ygo_card_metadata", {"id"})
    /\ hist' = [hist EXCEPT !.entry = store["ygo_card_metadata"], !.calls = <<>>]
    /\ cpc' = "metadata"
    /\ validation_errors' = Validate(raw, "", NoneValidated).validation_errors
    /\ UNCHANGED <<store, rejected, batch_size, imageVars, banlistVars, skip_translations,
                   lang, total_successful, total_failed, total_records,
                   metadata_result, translation_result,
                   mainVars, translationVars>>

\* batch_upsert has returned: metadata_result is built with
\* elapsed_seconds=time.time() - start_time; with skip_translations the run
\* goes on to its elapsed time, otherwise sync_translations starts
MetadataResult ==
    /\ cpc = "metadata"
    /\ epc = "returned"
    /\ \E elapsed \in ElapsedSince(0) :
          metadata_result' = [SyncResult(Len(records), successful, failed)
                                 EXCEPT !.elapsed_seconds = elapsed]
    /\ IF skip_translations
       THEN /\ cpc' = "elapsed"
            /\ UNCHANGED <<lang, total_successful, total_failed, total_records>>
       ELSE /\ cpc' = "translations"
            /\ lang' = 1
            /\ total_successful' = 0
            /\ total_failed' = 0
            /\ total_records' = 0
    /\ UNCHANGED <<store, engineVars, imageVars, banlistVars, mainVars,
                   skip_translations, raw_cards, translation_result,
                   validation_errors, translationVars>>

\* what one iteration of the loop over the languages came to: whether an
\* exception reached `except Exception`, and otherwise the number of records
\* batch_upsert was given and the counts it returned
LanguageOutcome(language, raised, total, succ, fail) ==
    [language |-> language, raised |-> raised, total |-> total,
     successful |-> succ, failed |-> fail]

\* an exception that leaves the loop over the languages: the languages after
\* it are not fetched
TranslationFetchRaisesEndsLoop ==
    /\ cpc = "translations"
    /\ lang <= Len(languages)
    /\ total_failed' = total_failed + 1
    /\ lang' = Len(languages) + 1
    /\ fetch_errors' = fetch_errors \cup {<<"translations", languages[lang]>>}
    /\ lang_outcome' = Append(lang_outcome, LanguageOutcome(languages[lang], TRUE, 0, 0, 0))
    /\ UNCHANGED languages
    /\ UNCHANGED <<store, engineVars, imageVars, banlistVars, cpc, skip_translations,
                   raw_cards, total_successful, total_records, metadata_result,
                   translation_result,
                   exit_code, validation_errors>>

\* the fetch of a language raises: except Exception, total_failed += 1
TranslationFetchRaises ==
    /\ cpc = "translations"
    /\ lang <= Len(languages)
    /\ total_failed' = total_failed + 1
    /\ lang' = lang + 1
    /\ fetch_errors' = fetch_errors \cup {<<"translations", languages[lang]>>}
    /\ lang_outcome' = Append(lang_outcome, LanguageOutcome(languages[lang], TRUE, 0, 0, 0))
    /\ UNCHANGED languages
    /\ UNCHANGED <<store, engineVars, imageVars, banlistVars, cpc, skip_translations,
                   raw_cards, total_successful, total_records, metadata_result,
                   translation_result,
                   exit_code, validation_errors>>

\* the fetch of a language returns no valid record: continue
TranslationFetchEmpty(raw) ==
    /\ cpc = "translations"
    /\ lang <= Len(languages)
    /\ validate_and_transform_translations(raw, languages[lang]) = <<>>
    /\ raw_cards' = raw
    /\ lang' = lang + 1
    /\ lang_outcome' = Append(lang_outcome, LanguageOutcome(languages[lang], FALSE, 0, 0, 0))
    /\ UNCHANGED languages
    /\ validation_errors' =
          Validate(raw, languages[lang], NoneValidated).validation_errors
    /\ UNCHANGED <<store, engineVars, imageVars, banlistVars, cpc, skip_translations,
                   total_successful, total_failed, total_records,
                   metadata_result, translation_result,
                   mainVars>>

\* the fetch of a language returns valid records: total_records += their
\* number and batch_upsert is called on them
TranslationFetchAndUpsert(raw) ==
    /\ cpc = "translations"
    /\ lang <= Len(languages)
    /\ validate_and_transform_translations(raw, languages[lang]) # <<>>
    /\ raw_cards' = raw
    /\ total_records' = total_records
            + Len(validate_and_transform_translations(raw, languages[lang]))
    /\ EnterBatchUpsert(
            validate_and_transform_translations(raw, languages[lang]),
            "ygo_card_translations", {"card_id", "language"})
    /\ hist' = [hist EXCEPT !.entry = store["ygo_card_translations"], !.calls = <<>>]
    /\ cpc' = "translation_upsert"
    /\ validation_errors' =
          Validate(raw, languages[lang], NoneValidated).validation_errors
    /\ UNCHANGED <<store, rejected, batch_size, imageVars, banlistVars, skip_translations,
                   lang, total_successful, total_failed, metadata_result,
                   translation_result,
                   mainVars, translationVars>>

\* batch_upsert has returned: its counts are added to the totals
TranslationCounts ==
    /\ cpc = "translation_upsert"
    /\ epc = "returned"
    /\ total_successful' = total_successful + successful
    /\ total_failed' = total_failed + failed
    /\ lang' = lang + 1
    /\ cpc' = "translations"
    /\ lang_outcome' = Append(lang_outcome,
            LanguageOutcome(languages[lang], FALSE, Len(records), successful, failed))
    /\ UNCHANGED languages
    /\ UNCHANGED <<store, engineVars, imageVars, banlistVars, skip_translations, raw_cards,
                   total_records, metadata_result, translation_result,
                   mainVars, validation_errors>>

\* the loop over the languages is over: sync_translations returns its
\* SyncResult to run_sync_cards
TranslationsReturn ==
    /\ cpc = "translations"
    /\ lang > Len(languages)
    /\ translation_result' = SyncResult(total_records, total_successful, total_failed)
    /\ cpc' = "elapsed"
    /\ UNCHANGED <<store, engineVars, imageVars, banlistVars, skip_translations, raw_cards,
                   lang, total_successful, total_failed, total_records,
                   metadata_result,
                   mainVars, validation_errors, translationVars>>

\* elapsed = time.time() - start_time;
\* metadata_result.elapsed_seconds = elapsed; return the two results
SetElapsedSeconds ==
    /\ cpc = "elapsed"
    /\ \E elapsed \in ElapsedSince(metadata_result.elapsed_seconds) :
          metadata_result' = [metadata_result EXCEPT !.elapsed_seconds = elapsed]
    /\ cpc' = "done"
    /\ UNCHANGED <<store, engineVars, imageVars, banlistVars, mainVars,
                   skip_translations, raw_cards, lang, total_successful,
                   total_failed, total_records, translation_result,
                   validation_errors, translationVars>>

\* cmd_sync_cards returns the exit code of the two results
CmdSyncCardsReturn ==
    /\ cpc = "done"
    /\ exit_code' = cmd_sync_cards(metadata_result, translation_result)
    /\ cpc' = "exited"
    /\ UNCHANGED <<store, engineVars, imageVars, banlistVars, fetch_errors,
                   skip_translations, raw_cards, lang, total_successful,
                   total_failed, total_records, metadata_result,
                   translation_result, validation_errors, translationVars>>

InitCards ==
    /\ ImagesIdle
    /\ BanlistIdle
    /\ MainIdle
    /\ store \in {[t \in {"ygo_card_metadata", "ygo_card_translations"} |-> rows] :
                    rows \in {<<>>}}
    /\ rejected = {}
    /\ records = <<>>
    /\ table = "ygo_card_metadata"
    /\ conflict_columns = {"id"}
    /\ batch_size = default_batch_size
    /\ i = 0
    /\ j = 0
    /\ successful = 0
    /\ failed = 0
    /\ epc = "idle"
    /\ sleeps = 0
    /\ chunk = NewChunk(0, 0)
    /\ hist = NewHist(<<>>)
    /\ cpc = "start"
    /\ skip_translations \in BOOLEAN
    /\ raw_cards = <<>>
    /\ lang = 0
    /\ total_successful = 0
    /\ total_failed = 0
    /\ total_records = 0
    /\ metadata_result = None
    /\ translation_result = None
    /\ validation_errors = 0
    /\ languages = translation_languages
    /\ lang_outcome = <<>>

NextCards ==
    \/ FetchMetadataRaises
    \/ \E raw \in RawLists : FetchMetadataNoCards(raw)
    \/ \E raw \in RawLists : FetchMetadataAndUpsert(raw)
    \/ BatchUpsertStep
    \/ MetadataResult
    \/ TranslationFetchRaises
    \/ \E raw \in RawLists : TranslationFetchEmpty(raw)
    \/ \E raw \in RawLists : TranslationFetchAndUpsert(raw)
    \/ TranslationCounts
    \/ TranslationsReturn
    \/ SetElapsedSeconds
    \/ CmdSyncCardsReturn

SpecCards == InitCards /\ [][NextCards]_vars

\* ------------------------------------- sync_translations run on its own
\* language codes a translation_languages tuple may hold
ApiLanguages == <<"pt", "fr", "de", "it">>

\* the values of translation_languages: the default and longer tuples
LanguageTuples == {SubSeq(ApiLanguages, 1, n) : n \in 1..MaxLanguages}

\* the state on entry of sync_translations: the totals zeroed, the loop over
\* the languages about to start
InitTranslations ==
    /\ ImagesIdle
    /\ BanlistIdle
    /\ MainIdle
    /\ store = [t \in {"ygo_card_metadata", "ygo_card_translations"} |-> <<>>]
    /\ rejected = {}
    /\ records = <<>>
    /\ table = "ygo_card_translations"
    /\ conflict_columns = {"card_id", "language"}
    /\ batch_size = default_batch_size
    /\ i = 0
    /\ j = 0
    /\ successful = 0
    /\ failed = 0
    /\ epc = "idle"
    /\ sleeps = 0
    /\ chunk = NewChunk(0, 0)
    /\ hist = NewHist(<<>>)
    /\ cpc = "translations"
    /\ skip_translations = FALSE
    /\ raw_cards = <<>>
    /\ lang = 1
    /\ total_successful = 0
    /\ total_failed = 0
    /\ total_records = 0
    /\ metadata_result = None
    /\ translation_result = None
    /\ validation_errors = 0
    /\ languages \in LanguageTuples
    /\ lang_outcome = <<>>

NextTranslations ==
    \/ TranslationFetchRaises
    \/ \E raw \in RawLists : TranslationFetchEmpty(raw)
    \/ \E raw \in RawLists : TranslationFetchAndUpsert(raw)
    \/ BatchUpsertStep
    \/ TranslationCounts
    \/ TranslationsReturn

SpecTranslations == InitTranslations /\ [][NextTranslations]_vars

\* ------------------------------------------------------ run_sync_banlist
BanIds == 1..MaxBanned

\* the banlist_info values of a response: null, or a dict with some of the
\* fields; the statuses of the TCG response are written "Limited", those of
\* the OCG response "Forbidden", so that the two sources differ on every
\* field they share
BanStatus(src) == IF src = "tcg" THEN "Limited" ELSE "Forbidden"

BanInfos(src) ==
    {None,
     [ban_tcg |-> BanStatus(src)],
     [ban_ocg |-> BanStatus(src)],
     [ban_tcg |-> BanStatus(src), ban_ocg |-> BanStatus(src)]}

\* a card of a response
BanCard(id, src, info) ==
    [id |-> id, name |-> <<"name", id, src>>, banlist_info |-> info]

RECURSIVE Ascending(_)
Ascending(S) ==
    IF S = {} THEN <<>>
    ELSE LET m == CHOOSE x \in S : \A y \in S : x <= y
         IN  <<m>> \o Ascending(S \ {m})

\* the "data" lists a banlist request may return: each card id at most once
BanResponses(src) ==
    {[p \in DOMAIN Ascending(DOMAIN info) |->
        BanCard(Ascending(DOMAIN info)[p], src, info[Ascending(DOMAIN info)[p]])] :
        info \in UNION {[S -> BanInfos(src)] : S \in SUBSET BanIds}}

CardIds(cs) == {cs[p].id : p \in DOMAIN cs}

\* merged_banlist = {**existing_banlist}; if "ban_ocg" in ocg_banlist:
\* merged_banlist["ban_ocg"] = ocg_banlist["ban_ocg"]
MergeBanlist(existing_banlist, ocg_banlist) ==
    [f \in DOMAIN existing_banlist \cup (DOMAIN ocg_banlist \cap {"ban_ocg"}) |->
        IF f = "ban_ocg" /\ f \in DOMAIN ocg_banlist
        THEN ocg_banlist[f]
        ELSE existing_banlist[f]]

\* cards_by_id[card["id"]] = card
PutCard(by_id, card) ==
    IF card.id \in CardIds(by_id)
    THEN [p \in DOMAIN by_id |-> IF by_id[p].id = card.id THEN card ELSE by_id[p]]
    ELSE Append(by_id, card)

\* for card in tcg_cards: cards_by_id[card["id"]] = card
RECURSIVE PutCards(_, _)
PutCards(by_id, cs) ==
    IF cs = <<>> THEN by_id
    ELSE PutCards(PutCard(by_id, Head(cs)), Tail(cs))

\* a merge that skips the cards whose id the first response did not have
MergeCardKnownOnly(by_id, card) ==
    IF card.id \in CardIds(by_id)
    THEN [p \in DOMAIN by_id |->
            IF by_id[p].id = card.id
            THEN [by_id[p] EXCEPT
                    !.banlist_info = MergeBanlist(@, card.banlist_info)]
            ELSE by_id[p]]
    ELSE by_id

\* one iteration of `for card in ocg_cards`: the card of a known id gets the
\* merged banlist_info (in place), a new id is added at the end
MergeCard(by_id, card) ==
    IF card.id \in CardIds(by_id)
    THEN [p \in DOMAIN by_id |->
            IF by_id[p].id = card.id
            THEN [by_id[p] EXCEPT
                    !.banlist_info = MergeBanlist(@, card.banlist_info)]
            ELSE by_id[p]]
    ELSE PutCard(by_id, card)

RECURSIVE MergeOcg(_, _)
MergeOcg(by_id, ocg) ==
    IF ocg = <<>> THEN by_id
    ELSE MergeOcg(MergeCard(by_id, Head(ocg)), Tail(ocg))

\* .get(field) of a banlist_info dict
Get(info, field) == IF field \in DOMAIN info THEN info[field] ELSE None

CardBanlistEntry(card) ==
    [card_id |-> card.id, card_name |-> card.name,
     ban_tcg |-> Get(card.banlist_info, "ban_tcg"),
     ban_ocg |-> Get(card.banlist_info, "ban_ocg"),
     ban_goat |-> Get(card.banlist_info, "ban_goat")]

\* extract_banlist_entries: the cards whose banlist_info is truthy
extract_banlist_entries(raw) ==
    LET listed == SelectSeq(raw, LAMBDA c : c.banlist_info # None)
    IN  [p \in DOMAIN listed |-> CardBanlistEntry(listed[p])]

\* the TCG request raises (raise_for_status, a connection error): the
\* exception leaves fetch_banlist_from_api and run_sync_banlist
FetchTcgRaises ==
    /\ bpc = "start"
    /\ bpc' = "aborted"
    /\ fetch_errors' = fetch_errors \cup {<<"banlist", "tcg">>}
    /\ UNCHANGED <<store, engineVars, imageVars, cardsVars, exit_code,
                   tcg_cards, ocg_cards, cards_by_id, banlist_result>>

\* the TCG request returns: cards_by_id[card["id"]] = card for its cards
FetchTcgOk(tcg) ==
    /\ bpc = "start"
    /\ tcg_cards' = tcg
    /\ cards_by_id' = PutCards(<<>>, tcg)
    /\ bpc' = "tcg_fetched"
    /\ UNCHANGED <<store, engineVars, imageVars, cardsVars, mainVars,
                   ocg_cards, banlist_result>>

\* the OCG request raises: the exception leaves run_sync_banlist
FetchOcgRaises ==
    /\ bpc = "tcg_fetched"
    /\ bpc' = "aborted"
    /\ fetch_errors' = fetch_errors \cup {<<"banlist", "ocg">>}
    /\ UNCHANGED <<store, engineVars, imageVars, cardsVars, exit_code,
                   tcg_cards, ocg_cards, cards_by_id, banlist_result>>

\* the OCG request returns: its cards are merged into cards_by_id and
\* fetch_banlist_from_api returns list(cards_by_id.values())
FetchOcgOk(ocg) ==
    /\ bpc = "tcg_fetched"
    /\ ocg_cards' = ocg
    /\ cards_by_id' = MergeOcg(cards_by_id, ocg)
    /\ bpc' = "fetched"
    /\ UNCHANGED <<store, engineVars, imageVars, cardsVars, mainVars,
                   tcg_cards, banlist_result>>

\* no card has banlist information:
\* return SyncResult(total=0, successful=0, failed=0)
ExtractNoEntries ==
    /\ bpc = "fetched"
    /\ extract_banlist_entries(cards_by_id) = <<>>
    /\ banlist_result' = SyncResult(0, 0, 0)
    /\ bpc' = "done"
    /\ UNCHANGED <<store, engineVars, imageVars, cardsVars, mainVars,
                   tcg_cards, ocg_cards, cards_by_id>>

\* batch_upsert_banlist is called on the entries
ExtractAndUpsert ==
    /\ bpc = "fetched"
    /\ extract_banlist_entries(cards_by_id) # <<>>
    /\ EnterBatchUpsert(extract_banlist_entries(cards_by_id), "ygo_banlist", {"card_id"})
    /\ hist' = [hist EXCEPT !.entry = store["ygo_banlist"], !.calls = <<>>]
    /\ bpc' = "upsert"
    /\ UNCHANGED <<store, rejected, batch_size, imageVars, cardsVars, mainVars,
                   tcg_cards, ocg_cards, cards_by_id, banlist_result>>

\* batch_upsert_banlist has returned: the SyncResult is built and returned
BanlistResult ==
    /\ bpc = "upsert"
    /\ epc = "returned"
    /\ \E elapsed \in ElapsedSince(0) :
          banlist_result' = [SyncResult(Len(records), successful, failed)
                                EXCEPT !.elapsed_seconds = elapsed]
    /\ bpc' = "done"
    /\ UNCHANGED <<store, engineVars, imageVars, cardsVars, mainVars,
                   tcg_cards, ocg_cards, cards_by_id>>

\* cmd_sync_banlist returns 1 if result.failed > 0 else 0
CmdSyncBanlistReturn ==
    /\ bpc = "done"
    /\ exit_code' = IF banlist_result.failed > 0 THEN 1 ELSE 0
    /\ bpc' = "exited"
    /\ UNCHANGED <<store, engineVars, imageVars, cardsVars, fetch_errors,
                   tcg_cards, ocg_cards, cards_by_id, banlist_result>>

InitBanlist ==
    /\ ImagesIdle
    /\ CardsIdle
    /\ MainIdle
    /\ store = [t \in {"ygo_banlist"} |-> <<>>]
    /\ rejected = {}
    /\ records = <<>>
    /\ table = "ygo_banlist"
    /\ conflict_columns = {"card_id"}
    /\ batch_size = default_batch_size
    /\ i = 0
    /\ j = 0
    /\ successful = 0
    /\ failed = 0
    /\ epc = "idle"
    /\ sleeps = 0
    /\ chunk = NewChunk(0, 0)
    /\ hist = NewHist(<<>>)
    /\ bpc = "start"
    /\ tcg_cards = <<>>
    /\ ocg_cards = <<>>
    /\ cards_by_id = <<>>
    /\ banlist_result = None

NextBanlist ==
    \/ FetchTcgRaises
    \/ \E tcg \in BanResponses("tcg") : FetchTcgOk(tcg)
    \/ FetchOcgRaises
    \/ \E ocg \in BanResponses("ocg") : FetchOcgOk(ocg)
    \/ ExtractNoEntries
    \/ ExtractAndUpsert
    \/ BatchUpsertStep
    \/ BanlistResult
    \/ CmdSyncBanlistReturn

SpecBanlist == InitBanlist /\ [][NextBanlist]_vars

\* ------------------------------------------------------------------ main
\* main dispatches to one handler: a behaviour is the run of one pipeline
\* (sync_cropped_images has no command and never reaches a handler's return)
InitMain == InitCards \/ InitImages \/ InitBanlist

NextMain == NextCards \/ NextImages \/ NextBanlist

SpecMain == InitMain /\ [][NextMain]_vars

\* ----------------------------------------------------- claims: the engine
Accepted(recs, cols) == SelectSeq(recs, LAMBDA r : ~Rejects(r, cols))

UniqueKeys(recs, cols) ==
    \A p, q \in DOMAIN recs :
        ConflictKey(recs[p], cols) = ConflictKey(recs[q], cols) => p = q

NoDuplicateRows(rows, cols) ==
    \A a, b \in DOMAIN rows :
        ConflictKey(rows[a], cols) = ConflictKey(rows[b], cols) => a = b

\* C1: when the bulk upsert of a chunk failed, by the end of the chunk every
\* record of the chunk has been re-attempted individually, in order, and the
\* chunk has added exactly k to successful and n - k to failed, k being the
\* number of individual upserts that succeeded
C1_BatchDegradation ==
    (epc = "pace" /\ chunk.bulk = "failed") =>
        /\ chunk.tried = Batch
        /\ successful - chunk.succ0 = chunk.ok
        /\ failed - chunk.failed0 = Len(Batch) - chunk.ok

C1_Witness ==
    /\ epc = "pace"
    /\ chunk.bulk = "failed"
    /\ Len(Batch) = 3
    /\ chunk.ok = 2
    /\ successful - chunk.succ0 = 2
    /\ failed - chunk.failed0 = 1

\* C6: failed is never negative; when a chunk is finished successful + failed
\* is the number of records of the chunks processed so far; the returned
\* counts add up to len(records)
C6_Conservation ==
    /\ failed >= 0
    /\ successful >= 0
    /\ epc = "pace" => successful + failed = Min(i + batch_size, Total)
    /\ epc \in {"return", "returned"} => successful + failed = Total

C6_Witness ==
    /\ epc = "returned"
    /\ Total = 3
    /\ batch_size = 2
    /\ hist.bulkFailed
    /\ successful = 2
    /\ failed = 1

\* C7: with unique conflict keys and no failing write, a second batch_upsert
\* of the same records leaves the table as the first left it: one row per
\* conflict key, holding the record's values, and no duplicate rows
C7_Idempotence ==
    (/\ epc = "returned"
     /\ hist.runs >= 2
     /\ UniqueKeys(records, conflict_columns)
     /\ ~hist.bulkFailed
     /\ ~hist.recordFailed) =>
        /\ store[table] = hist.entry
        /\ NoDuplicateRows(store[table], conflict_columns)
        /\ \A p \in DOMAIN records :
              \E k \in DOMAIN store[table] :
                 \A f \in DOMAIN records[p] : store[table][k][f] = records[p][f]

C7_Witness ==
    /\ epc = "returned"
    /\ hist.runs = 2
    /\ Len(records) = 2
    /\ batch_size = 1
    /\ UniqueKeys(records, conflict_columns)
    /\ ~hist.bulkFailed
    /\ ~hist.recordFailed
    /\ Len(store[table]) = 2

\* C8: when the store rejects exactly the records whose key is in rejected
\* (no other individual write fails), the table and the counts at return are
\* those of upserting the accepted records one by one, whatever batch_size is
C8_BatchingTransparent ==
    (epc = "returned" /\ ~hist.transient) =>
        /\ store[table] =
              UpsertRows(hist.entry, Accepted(records, conflict_columns), conflict_columns)
        /\ successful = Len(Accepted(records, conflict_columns))
        /\ failed = Total - Len(Accepted(records, conflict_columns))

C8_Witness ==
    /\ epc = "returned"
    /\ ~hist.transient
    /\ Total = 3
    /\ batch_size = 2
    /\ hist.bulkFailed
    /\ successful = 2
    /\ failed = 1
    /\ Len(store[table]) = 2


\* ------------------------------------------- claims: the image pipelines
\* the stages of process_card, in the order of its code
StageOrder(crp) ==
    IF crp THEN <<"download", "resize", "upload", "persist">>
    ELSE <<"download", "upload", "persist">>

AllStagesOk(k) ==
    /\ Len(trace[k]) = Len(StageOrder(cropped))
    /\ \A p \in DOMAIN trace[k] : trace[k][p] = <<StageOrder(cropped)[p], "ok">>

\* two SyncResult values with the same counts
SameCounts(r, s) ==
    /\ r.total = s.total
    /\ r.successful = s.successful
    /\ r.failed = s.failed
    /\ r.skipped = s.skipped

DownloadNetworkError(k) == trace[k] = <<(<<"download", "failed">>)>>

\* C2: when the run is over and exactly one card's download failed with a
\* network error while every stage of every other card succeeded, the counts
\* are (n - 1, 1), whatever max_workers is, and every warning or error logged
\* refers to that card (by id or by name); its reason is among them
C2_FailureIsolation ==
    rpc = "done" =>
        \A b \in Submitted :
            (DownloadNetworkError(b) /\ \A k \in Submitted \ {b} : AllStagesOk(k)) =>
                /\ p_successful = Len(cards) - 1
                /\ p_failed = 1
                /\ SameCounts(result, SyncResult(Len(cards), Len(cards) - 1, 1))
                /\ \A e \in log : e.ref \in {<<"id", cards[b].id>>, cards[b].name}
                /\ \E e \in log :
                      /\ e.fn = "process_cards_parallel"
                      /\ e.text = "Failed to download image for"
                      /\ e.ref = cards[b].name
                /\ \E e \in log : e.fn = "download_image" /\ e.ref = <<"id", cards[b].id>>

C2_Witness ==
    /\ rpc = "done"
    /\ max_workers = 2
    /\ Len(cards) = 2
    /\ DownloadNetworkError(1)
    /\ AllStagesOk(2)
    /\ SameCounts(result, SyncResult(2, 1, 1))

\* C3: the stages a card has attempted are an initial part of download,
\* (resize,) upload, persist, each but the last of them succeeded, and a card
\* that finished after a stage that did not succeed holds a failure with a
\* reason that is not empty, and is counted as failed when collected
C3_StageOrder ==
    \A k \in DOMAIN trace :
        /\ Len(trace[k]) <= Len(StageOrder(cropped))
        /\ \A p \in DOMAIN trace[k] :
              /\ trace[k][p][1] = StageOrder(cropped)[p]
              /\ p < Len(trace[k]) => trace[k][p][2] = "ok"
        /\ stage[k] \in {"pending", "download"} => trace[k] = <<>>
        /\ (stage[k] = "finished" /\ ~AllStagesOk(k)) =>
              /\ trace[k] # <<>>
              /\ trace[k][Len(trace[k])][2] # "ok"
              /\ \/ /\ fut[k].kind = "returned"
                    /\ ~fut[k].success
                    /\ fut[k].error_msg # None
                 \/ /\ fut[k].kind = "raised"
                    /\ fut[k].exc # ""
        /\ (stage[k] = "finished" /\ AllStagesOk(k)) =>
              fut[k] = Returned(cards[k].id, TRUE, None)

C3_Witness ==
    \E k \in DOMAIN trace :
        /\ ~cropped
        /\ stage[k] = "finished"
        /\ trace[k] = <<(<<"download", "ok">>), (<<"upload", "failed">>)>>
        /\ fut[k] = Returned(cards[k].id, FALSE,
                              Reason("Failed to upload image for", cards[k].name))

\* C5: whatever the order in which the futures complete and are collected,
\* the counters hold exactly the collected cards (no update is lost), and at
\* return successful is the number of cards whose every stage succeeded,
\* failed the number of the others, and they add up to len(cards)
C5_OrderIndependentCounts ==
    rpc \in {"process", "done"} =>
        /\ p_successful = Cardinality({k \in collected : AllStagesOk(k)})
        /\ p_failed = Cardinality({k \in collected : ~AllStagesOk(k)})
        /\ rpc = "done" =>
              /\ collected = Submitted
              /\ result.successful = Cardinality({k \in Submitted : AllStagesOk(k)})
              /\ result.failed = Cardinality({k \in Submitted : ~AllStagesOk(k)})
              /\ result.successful + result.failed = Len(cards)
              /\ result.total = Len(cards)

C5_Witness ==
    /\ rpc = "done"
    /\ max_workers = 2
    /\ Len(cards) = 2
    /\ AllStagesOk(1)
    /\ fut[2].kind = "raised"
    /\ SameCounts(result, SyncResult(2, 1, 1))

\* ----------------------------------------------- claims: the selection
\* the ids of the rows whose reference is null
NullRefIds ==
    LET rows == store["ygo_card_metadata"]
    IN  {rows[k].id : k \in {q \in DOMAIN rows : rows[q][RefColumn(cropped)] = None}}

\* C9: once the cards are selected, without force every selected card is a
\* row whose reference is null, so a table in which every row has a reference
\* gives no card, nothing is submitted and the run returns
\* SyncResult(0, 0, 0); with force and no limit the cards are all the rows
C9_RerunConvergence ==
    rpc \in {"selected", "done"} =>
        /\ ~force =>
              /\ {cards[c].id : c \in DOMAIN cards} \subseteq NullRefIds
              /\ (\A k \in DOMAIN store["ygo_card_metadata"] :
                      store["ygo_card_metadata"][k][RefColumn(cropped)] # None) =>
                    /\ cards = <<>>
                    /\ stage = <<>>
                    /\ rpc = "done" => result = SyncResult(0, 0, 0)
        /\ (force /\ ~Truthy(limit)) =>
              cards = Project(store["ygo_card_metadata"])

C9_Witness ==
    /\ rpc = "done"
    /\ ~force
    /\ Len(store["ygo_card_metadata"]) = MaxPages * page_size + 1
    /\ \A k \in DOMAIN store["ygo_card_metadata"] :
          store["ygo_card_metadata"][k][RefColumn(cropped)] # None
    /\ result = SyncResult(0, 0, 0)

C9_WitnessForce ==
    /\ rpc = "selected"
    /\ force
    /\ ~Truthy(limit)
    /\ Len(cards) = MaxPages * page_size + 1

\* C10: with a limit N >= 1 the selection holds at most N cards
C10_HardLimit ==
    (rpc \in {"selected", "done"} /\ Truthy(limit)) => Len(cards) <= limit


\* ------------------------------------------------ claims: the summaries
Conserves(r) == r.successful + r.failed + r.skipped <= r.total

\* C4: every SyncResult a pipeline has produced satisfies
\* successful + failed + skipped <= total
C4_SyncResultInvariant ==
    /\ metadata_result # None => Conserves(metadata_result)
    /\ translation_result # None => Conserves(translation_result)
    /\ result # None => Conserves(result)


\* ------------------------------------------------ claims: the exit code
\* the SyncResult values the run has produced
Phases ==
    {r \in {metadata_result, translation_result, result, banlist_result} : r # None}

RecordId(rec) == IF "id" \in DOMAIN rec THEN rec.id ELSE rec.card_id

\* C12: a raw record that fails validation (its id is missing) does not
\* abort the run: it is left out of the output and counted, the records
\* after it are still transformed, in input order, and
\* len(output) + validation_errors = len(input)
C12_ValidationSkip ==
    /\ cpc = "aborted" => fetch_errors # {}
    /\ (cpc \in {"metadata", "translation_upsert"}) =>
          /\ Len(records) + validation_errors = Len(raw_cards)
          /\ {RecordId(records[p]) : p \in DOMAIN records}
                = {q \in DOMAIN raw_cards : IsValid(raw_cards[q])}
          /\ \A p, q \in DOMAIN records :
                p < q => RecordId(records[p]) < RecordId(records[q])
    /\ (cpc \in {"done", "exited"} /\ epc = "idle") =>
          /\ validation_errors = Len(raw_cards)
          /\ \A q \in DOMAIN raw_cards : ~IsValid(raw_cards[q])

C12_Witness ==
    /\ cpc = "metadata"
    /\ Len(raw_cards) = 2
    /\ ~IsValid(raw_cards[1])
    /\ validation_errors = 1
    /\ Len(records) = 1
    /\ records[1].id = 2

\* ------------------------------------------- claims: the worker pool
\* C13: at no point are more than max_workers cards inside a stage; every
\* other card that is not finished is pending
C13_BoundedConcurrency ==
    rpc = "process" =>
        /\ Cardinality(InStage) <= max_workers
        /\ \A k \in Submitted :
              stage[k] # "finished" /\ k \notin InStage => k \in Pending

C13_Witness ==
    /\ rpc = "process"
    /\ max_workers = 1
    /\ Len(cards) = 2
    /\ Cardinality(InStage) = 1
    /\ Cardinality(Pending) = 1

\* every submitted card has reached one terminal outcome, counted once
AllTerminal ==
    /\ \A k \in Submitted :
          /\ stage[k] = "finished"
          /\ fut[k].kind \in {"returned", "raised"}
    /\ collected = Submitted
    /\ p_successful + p_failed = Len(cards)
    /\ p_successful = Cardinality({k \in Submitted :
                          fut[k].kind = "returned" /\ fut[k].success})

\* C14: process_cards_parallel, once running, eventually returns, and when
\* it has returned every submitted card has exactly one terminal outcome,
\* success or failed, whether its failure was returned by a stage or raised
\* out of process_card
C14_RunToCompletion ==
    /\ (rpc = "process") ~> (rpc = "done")
    /\ [](rpc = "done" /\ cards # <<>> => AllTerminal)

C14_Witness ==
    /\ rpc = "done"
    /\ Len(cards) = 2
    /\ fut[1].kind = "raised"
    /\ fut[2].kind = "returned"
    /\ fut[2].success
    /\ p_successful = 1
    /\ p_failed = 1

\* ------------------------------------------------ claims: fetch errors
\* C15: once a fetch call has raised, the run it belongs to is aborted: the
\* error has left run_sync_cards or run_sync_banlist, no SyncResult is
\* produced after it and no handler returns
C15_FatalFetchError ==
    fetch_errors # {} => (cpc = "aborted" \/ bpc = "aborted")

\* --------------------------------------- claims: the engine's calls
\* the offsets range(0, total, batch_size) yields
ChunkStarts == {x \in 0..(Total - 1) : x % batch_size = 0}

CallsOf(op) == {a \in DOMAIN hist.calls : hist.calls[a].op = op}

\* C16: no error of a bulk or an individual upsert leaves batch_upsert: the
\* function is always inside its loop (at a chunk or a record of it that
\* exists) or at its return, and when it returns the bulk upsert of every
\* chunk has been attempted and every record is counted
C16_NeverRaises ==
    /\ epc \in {"idle", "bulk", "record", "pace", "return", "returned"}
    /\ epc \in {"bulk", "record", "pace"} => i \in ChunkStarts
    /\ epc = "record" => j \in DOMAIN Batch
    /\ epc \in {"return", "returned"} =>
          /\ {hist.calls[a].chunk : a \in CallsOf("bulk")} = ChunkStarts
          /\ successful + failed = Total

C16_Witness ==
    /\ epc = "returned"
    /\ Total = 3
    /\ batch_size = 1
    /\ Cardinality(CallsOf("bulk")) = 3
    /\ hist.calls[2].op = "record"
    /\ Cardinality(CallsOf("record")) = 1
    /\ successful = 2
    /\ failed = 1

\* ------------------------------------- claims: store connectivity
\* every write call the run has made failed, from the first one on
AllWritesFailed ==
    /\ metadata_result # None
    /\ metadata_result.total > 0
    /\ metadata_result.successful = 0
    /\ translation_result # None => translation_result.successful = 0
    /\ \A t \in DOMAIN store : store[t] = <<>>

\* C17: a run whose every write call failed, from the first bulk upsert on,
\* does not complete with a summary: the error has propagated out of it
C17_FatalStoreConnectivity ==
    AllWritesFailed => cpc \notin {"done", "exited"}

\* --------------------------------------- claims: sequence and pacing
\* the records of the chunk at offset c: records[c : c + batch_size]
ChunkAt(c) == SubSeq(records, c + 1, Min(c + batch_size, Total))

\* the call at position a follows a write of its own chunk
FollowsOwnWrite(a) ==
    /\ a > 1
    /\ hist.calls[a - 1].chunk = hist.calls[a].chunk
    /\ hist.calls[a - 1].op \in {"bulk", "record"}

\* the bulk upsert that opened the chunk of the call at position a
BulkBefore(a) ==
    CHOOSE b \in CallsOf("bulk") :
        b < a /\ \A q \in CallsOf("bulk") : q < a => q <= b

\* C18: the calls of a batch_upsert run are, chunk after chunk in input
\* order: the bulk upsert of the chunk (batch_size consecutive records, fewer
\* only in the last chunk), then the individual upserts of that chunk if
\* any, in order, then a sleep if and only if another chunk follows; no call
\* of a chunk comes before a call of an earlier chunk, and at return every
\* record has been in exactly one chunk
C18_SequentialPaced ==
    /\ \A a \in DOMAIN hist.calls :
          /\ hist.calls[a].chunk \in ChunkStarts
          /\ \A b \in DOMAIN hist.calls :
                a < b => hist.calls[a].chunk <= hist.calls[b].chunk
          /\ hist.calls[a].op = "bulk" =>
                /\ hist.calls[a].recs = ChunkAt(hist.calls[a].chunk)
                /\ Len(hist.calls[a].recs) = batch_size
                      \/ hist.calls[a].chunk + batch_size >= Total
                /\ IF hist.calls[a].chunk = 0
                   THEN a = 1
                   ELSE /\ a > 1
                        /\ hist.calls[a - 1].op = "sleep"
                        /\ hist.calls[a - 1].chunk = hist.calls[a].chunk - batch_size
          /\ hist.calls[a].op = "record" =>
                /\ FollowsOwnWrite(a)
                /\ hist.calls[a].recs =
                      <<ChunkAt(hist.calls[a].chunk)[a - BulkBefore(a)]>>
          /\ hist.calls[a].op = "sleep" =>
                /\ FollowsOwnWrite(a)
                /\ hist.calls[a].chunk + batch_size < Total
    /\ Cardinality(CallsOf("sleep")) = sleeps
    /\ epc \in {"return", "returned"} =>
          /\ \A p \in DOMAIN records :
                Cardinality({a \in CallsOf("bulk") :
                    /\ hist.calls[a].chunk < p
                    /\ p <= hist.calls[a].chunk + Len(hist.calls[a].recs)}) = 1
          /\ Total > 0 =>
                /\ Cardinality(CallsOf("sleep")) = Cardinality(CallsOf("bulk")) - 1
                /\ hist.calls[Len(hist.calls)].op # "sleep"

C18_Witness ==
    /\ epc = "returned"
    /\ Total = 3
    /\ batch_size = 2
    /\ [a \in DOMAIN hist.calls |-> hist.calls[a].op]
          = <<"bulk", "record", "record", "sleep", "bulk">>

\* ------------------------------------------- claims: the banlist merge
\* the card of an id in a list of cards with distinct ids
CardOf(cs, id) == cs[CHOOSE p \in DOMAIN cs : cs[p].id = id]

Merged == bpc \in {"fetched", "upsert", "done", "exited"}

\* C19: for a card id in both responses, every banlist field that both
\* responses carry has the value of the second (OCG) response in the merged
\* record
C19_LastSourceWins ==
    Merged =>
        \A id \in CardIds(tcg_cards) \cap CardIds(ocg_cards) :
            \A f \in DOMAIN CardOf(tcg_cards, id).banlist_info
                        \cap DOMAIN CardOf(ocg_cards, id).banlist_info :
                CardOf(cards_by_id, id).banlist_info[f]
                    = CardOf(ocg_cards, id).banlist_info[f]

\* C20: the merged list has exactly one record per id of the union of the
\* two responses, and a card of only one response is returned as received
C20_BanlistUnion ==
    Merged =>
        /\ CardIds(cards_by_id) = CardIds(tcg_cards) \cup CardIds(ocg_cards)
        /\ \A p, q \in DOMAIN cards_by_id :
              cards_by_id[p].id = cards_by_id[q].id => p = q
        /\ \A id \in CardIds(tcg_cards) \ CardIds(ocg_cards) :
              CardOf(cards_by_id, id) = CardOf(tcg_cards, id)
        /\ \A id \in CardIds(ocg_cards) \ CardIds(tcg_cards) :
              CardOf(cards_by_id, id) = CardOf(ocg_cards, id)

C20_Witness ==
    /\ bpc = "fetched"
    /\ CardIds(tcg_cards) = {1}
    /\ CardIds(ocg_cards) = {2}
    /\ cards_by_id = <<tcg_cards[1], ocg_cards[1]>>
    /\ tcg_cards[1].banlist_info # None
    /\ ocg_cards[1].banlist_info # None

\* ------------------------------------------- claims: the SyncResult values
\* C21: once a pipeline has constructed a SyncResult, no step changes any of
\* its fields (total, successful, failed, skipped, elapsed_seconds)
C21_SyncResultImmutable ==
    [][/\ metadata_result # None => metadata_result' = metadata_result
       /\ translation_result # None => translation_result' = translation_result
       /\ result # None => result' = result
       /\ banlist_result # None => banlist_result' = banlist_result]_vars

\* ------------------------------------------- claims: the language loop
RECURSIVE SumField(_, _)
SumField(seq, f) == IF seq = <<>> THEN 0 ELSE Head(seq)[f] + SumField(Tail(seq), f)

\* what each language of the loop so far is to add to the totals: 1 failure
\* when an exception reached the handler, the counts batch_upsert returned
\* otherwise
LanguageShares ==
    [p \in DOMAIN lang_outcome |->
        IF lang_outcome[p].raised
        THEN [successful |-> 0, failed |-> 1]
        ELSE [successful |-> lang_outcome[p].successful,
              failed |-> lang_outcome[p].failed]]

\* C22: an exception in the iteration of one language does not end the loop
\* of sync_translations: the loop visits every configured language in order,
\* a language whose iteration raised adds exactly 1 to the failed count, and
\* the totals, at every point of the loop and in the SyncResult returned, are
\* that 1 per raising language plus the successes and failures batch_upsert
\* returned for the other languages
C22_LanguageIsolation ==
    /\ cpc # "aborted"
    /\ \A p \in DOMAIN lang_outcome : lang_outcome[p].language = languages[p]
    /\ cpc = "translations" =>
          /\ Len(lang_outcome) = lang - 1
          /\ total_failed = SumField(LanguageShares, "failed")
          /\ total_successful = SumField(LanguageShares, "successful")
    /\ cpc = "elapsed" =>
          /\ Len(lang_outcome) = Len(languages)
          /\ translation_result.failed = SumField(LanguageShares, "failed")
          /\ translation_result.successful = SumField(LanguageShares, "successful")

C22_Witness ==
    /\ cpc = "elapsed"
    /\ Len(languages) = 2
    /\ lang_outcome[1].raised
    /\ ~lang_outcome[2].raised
    /\ lang_outcome[2].successful = 1
    /\ lang_outcome[2].failed = 1
    /\ translation_result = SyncResult(2, 1, 2)

\* ------------------------------------------- claims: the cropped pipeline
\* a request, an upload or an update of card k did not succeed (the
\* AttributeError of the template lookup comes before any request is made)
FailedOperation(k) ==
    /\ fut[k] # Raised("AttributeError")
    /\ \E p \in DOMAIN trace[k] : trace[k][p][2] # "ok"

\* C23: when the cropped run is over and no download, resize, upload or
\* persist operation of any selected card has failed, the result has
\* successful = total and failed = 0
C23_CroppedSuccessPath ==
    (cropped /\ rpc = "done" /\ cards # <<>>
        /\ \A k \in Submitted : ~FailedOperation(k)) =>
            /\ result.successful = result.total
            /\ result.failed = 0

\* ------------------------------------ claims: the reference and the object
\* the rows whose reference is one this run has written: the table starts
\* with null references and references of an earlier sync
WrittenRows ==
    LET rows == store["ygo_card_metadata"]
    IN  {rows[q] : q \in {n \in DOMAIN rows :
            rows[n][RefColumn(cropped)]
                \notin {None, OldUrl(RefColumn(cropped), rows[n].id)}}}

Did(k, stg, outcome) == \E p \in DOMAIN trace[k] : trace[k][p] = <<stg, outcome>>

\* C24: a row carries a reference written by the run only if the bytes of
\* that card are in the object store under the key derived from its id, put
\* there by a successful upload of that card, and the reference is the URL of
\* that key; a card is counted successful only if its persist step succeeded
C24_ReferenceImpliesObject ==
    rpc \in {"process", "done", "exited"} =>
        /\ \A row \in WrittenRows :
              /\ row[RefColumn(cropped)] = S3Url(S3Key(cropped, row.id))
              /\ [key |-> S3Key(cropped, row.id), body |-> ImageBytes(row.id)] \in s3
              /\ \E k \in Submitted :
                    /\ cards[k].id = row.id
                    /\ Did(k, "upload", "ok")
                    /\ Did(k, "persist", "ok")
        /\ \A k \in collected :
              (fut[k].kind = "returned" /\ fut[k].success) => Did(k, "persist", "ok")
        /\ p_successful = Cardinality({k \in collected : Did(k, "persist", "ok")})

C24_Witness ==
    /\ rpc = "done"
    /\ Len(cards) = 2
    /\ Did(1, "persist", "ok")
    /\ Did(2, "upload", "ok")
    /\ Did(2, "persist", "failed")
    /\ Cardinality(WrittenRows) = 1
    /\ Cardinality(s3) = 2
    /\ p_successful = 1

\* ------------------------------------ claims: the frame of the image run
\* C25: a step of the image run changes the keyed store only when it is the
\* persist step of a card, and then only the reference column of the
\* pipeline in the rows whose id is the card's id: no row is added or
\* removed, no other row and no other column changes; so a card that fails
\* in download or upload causes no write
C25_ImageFrame ==
    [][LET rows == store["ygo_card_metadata"]
           written == store'["ygo_card_metadata"]
       IN  store' # store =>
             \E k \in Submitted :
                /\ stage[k] = "persist"
                /\ stage'[k] = "finished"
                /\ Did(k, "upload", "ok")
                /\ DOMAIN store' = DOMAIN store
                /\ DOMAIN written = DOMAIN rows
                /\ \A q \in DOMAIN rows :
                      IF rows[q].id = cards[k].id
                      THEN /\ DOMAIN written[q] = DOMAIN rows[q]
                           /\ \A col \in DOMAIN rows[q] \ {RefColumn(cropped)} :
                                 written[q][col] = rows[q][col]
                      ELSE written[q] = rows[q]]_vars

C25_Witness ==
    /\ rpc = "done"
    /\ Len(cards) = 2
    /\ Len(store["ygo_card_metadata"]) = 2
    /\ Did(1, "upload", "failed")
    /\ Did(2, "persist", "ok")
    /\ store["ygo_card_metadata"][1]
          = ImageRow(cropped, cards[1].id, FALSE)
    /\ store["ygo_card_metadata"][2]
          = [ImageRow(cropped, cards[2].id, FALSE)
                EXCEPT ![RefColumn(cropped)] = S3Url(S3Key(cropped, cards[2].id))]

\* ------------------------------------ claims: what a run leaves eligible
\* the reference a table holds for a card id
RefOf(rows, card_id) ==
    rows[CHOOSE q \in DOMAIN rows : rows[q].id = card_id][RefColumn(cropped)]

\* the ids the next run would select with force=false and no limit
NextSelection ==
    LET next == get_cards_without_images(store["ygo_card_metadata"],
                                         RefColumn(cropped), FALSE, 0)
    IN  {next[c].id : c \in DOMAIN next}

CountedSuccessful(k) == fut[k].kind = "returned" /\ fut[k].success

\* C26: when the run is over, every card counted as failed, one whose upload
\* succeeded and whose persist failed included, has the reference it had
\* when the run started, so that one that had a null reference is selected
\* by the next run with force=false; every card counted as successful is
\* not selected by it
C26_FailedStayEligible ==
    (rpc \in {"done", "exited"} /\ cards # <<>>) =>
        /\ p_failed = Cardinality({k \in Submitted : ~CountedSuccessful(k)})
        /\ p_successful = Cardinality({k \in Submitted : CountedSuccessful(k)})
        /\ \A k \in Submitted :
              IF CountedSuccessful(k)
              THEN cards[k].id \notin NextSelection
              ELSE /\ RefOf(store["ygo_card_metadata"], cards[k].id)
                        = RefOf(before, cards[k].id)
                   /\ RefOf(before, cards[k].id) = None
                        => cards[k].id \in NextSelection

C26_Witness ==
    /\ rpc = "done"
    /\ ~cropped
    /\ Len(cards) = 2
    /\ Did(1, "upload", "ok")
    /\ Did(1, "persist", "failed")
    /\ CountedSuccessful(2)
    /\ RefOf(before, cards[1].id) = None
    /\ NextSelection = {cards[1].id}

\* ------------------------------------ claims: the empty download
\* C27: a card whose download request returned an empty body is a download
\* failure: process_card returns the failure "Failed to download image for
\* <name>" right away, so neither upload nor persist is attempted (no object
\* under its key, its reference as at the start of the run), and once
\* collected it is among the cards counted as failed
C27_EmptyDownloadFails ==
    rpc \in {"process", "done", "exited"} =>
        \A k \in Submitted :
            Did(k, "download", "empty") =>
                /\ trace[k] = <<(<<"download", "empty">>)>>
                /\ stage[k] = "finished"
                /\ fut[k] = Returned(cards[k].id, FALSE,
                                     Reason("Failed to download image for", cards[k].name))
                /\ \A o \in s3 : o.key # S3Key(cropped, cards[k].id)
                /\ RefOf(store["ygo_card_metadata"], cards[k].id)
                      = RefOf(before, cards[k].id)
                /\ p_failed = Cardinality({q \in collected : ~CountedSuccessful(q)})
                /\ rpc # "process" => (k \in collected /\ result.failed >= 1)

C27_Witness ==
    /\ rpc = "done"
    /\ Len(cards) = 2
    /\ Did(1, "download", "empty")
    /\ AllStagesOk(2)
    /\ SameCounts(result, SyncResult(2, 1, 1))
    /\ Cardinality(s3) = 1

\* ------------------------------------ claims: the empty metadata phase
\* C28: the step of run_sync_cards in which the metadata fetch returns and
\* validation yields no record returns (SyncResult(0, 0, 0), None): it writes
\* nothing to the store, calls neither batch_upsert nor sync_translations,
\* whatever skip_translations is; and sync-cards, given these two results,
\* exits with code 0
C28_EmptyMetadataShortCircuit ==
    [][/\ (cpc = "start" /\ cpc' # "aborted"
            /\ validate_and_transform_cards(raw_cards') = <<>>) =>
                /\ cpc' = "done"
                /\ metadata_result' = SyncResult(0, 0, 0)
                /\ translation_result' = None
                /\ store' = store
                /\ epc' = "idle"
                /\ hist' = hist
                /\ lang' = 0
                /\ lang_outcome' = <<>>
       /\ (cpc = "done" /\ metadata_result = SyncResult(0, 0, 0)
            /\ translation_result = None /\ cpc' # cpc) =>
                /\ cpc' = "exited"
                /\ exit_code' = 0
                /\ store' = store]_vars

C28_Witness ==
    /\ cpc = "exited"
    /\ ~skip_translations
    /\ Len(raw_cards) = 2
    /\ validation_errors = 2
    /\ metadata_result = SyncResult(0, 0, 0)
    /\ translation_result = None
    /\ store["ygo_card_metadata"] = <<>>
    /\ store["ygo_card_translations"] = <<>>
    /\ epc = "idle"
    /\ lang_outcome = <<>>
    /\ exit_code = 0

====
